---- MODULE Spec2Model ----
(***************************************************************************)
(* The Shopify -> WhatsApp webhook relay of src/src/index.ts: two POST     *)
(* handlers (checkouts/update, orders/create) that verify the HMAC header, *)
(* acknowledge, normalise the recipient phone, consult the Firestore       *)
(* collection "whatsappLogs", post a template message to the provider and  *)
(* record the outcome.                                                     *)
(*                                                                         *)
(* One handler invocation is one delivery.  Node runs the synchronous code *)
(* between two awaits atomically, so every action below is the code from   *)
(* one await (or the handler entry) to the next await (or return/throw).   *)
(*                                                                         *)
(* Environment assumptions (not decided by the repository's code):        *)
(*  - the JSON middleware has captured req.rawBody and parsed req.body     *)
(*    (lines 154-160); the body is an object with a string id (line 16);   *)
(*  - the Firestore client runs with its default settings: a query with    *)
(*    orderBy(f) returns only documents that hold field f, and add()       *)
(*    throws synchronously on a field whose value is undefined;            *)
(*  - the Firestore service itself answers every query and write.          *)
(***************************************************************************)
EXTENDS Integers, Sequences, FiniteSets, TLC

(* ---------------------------- bounds ----------------------------------- *)
MaxDeliveries == 2
MaxTicks == 1

(* ------------------------- program constants --------------------------- *)
\* 24 * 60 * 60 * 1000 ms, the cooldown window of the checkout handler
Cooldown == 24 * 60 * 60 * 1000

CheckoutsUpdate == "/webhooks/checkouts/update"
OrdersCreate == "/webhooks/orders/create"
Kinds == {CheckoutsUpdate, OrdersCreate}

\* JavaScript undefined, for string-valued and for phone-valued fields
undefined == "undefined"
NoPhone == <<"undefined">>

(* ------------------------------ inputs --------------------------------- *)
Digits == {"0", "1", "2", "3", "4", "5", "6", "7", "8", "9"}

\* raw phone strings, as sequences of characters
RawNational1 == <<"9", "8", "7", "6", "5", "4", "3", "2", "1", "0">>
RawE164_1 == <<"+", "9", "1", "9", "8", "7", "6", "5", "4", "3", "2", "1", "0">>
RawNational2 == <<"0", "9", "1", "2", "3", "4", "5", "6", "7", "8", "0">>
RawShort == <<"1", "2", "3", "4", "5">>
RawLetters == <<"a", "b", "c">>
RawEmpty == << >>

CustomerPhones == {NoPhone, RawEmpty, RawE164_1, RawShort, RawLetters}
ShippingPhones == {NoPhone, RawNational2}
BillingPhones == {NoPhone, RawNational1}

EventIds == {"chk_1", "chk_2"}
CompletedAts == {undefined, "2025-01-01T00:00:00Z"}

\* the request bodies (req.body after JSON parsing; req.rawBody is its text)
Payloads ==
  [id : EventIds, completed_at : CompletedAts, customer_phone : CustomerPhones,
   shipping_phone : ShippingPhones, billing_phone : BillingPhones]

Secrets == {"", "shpss_1"}
ForeignSecret == "shpss_other"

\* what axios.post can end with: a 2xx answer (data.messages with zero or one
\* descriptor), a non-2xx answer (error.response.data), or a transport error
\* (error.message only)
ProviderResults ==
  { [ok |-> TRUE, messages |-> << [id |-> "wamid.1", message_status |-> "accepted"] >>, data |-> undefined],
    [ok |-> TRUE, messages |-> << >>, data |-> undefined],
    [ok |-> FALSE, messages |-> << >>, data |-> "provider error body"],
    [ok |-> FALSE, messages |-> << >>, data |-> undefined] }

(* ------------------------------ state ---------------------------------- *)
VARIABLES
  SHOPIFY_SECRET_KEY,  \* process.env.SHOPIFY_SECRET_KEY, "" when unset
  whatsappLogs,        \* the Firestore collection, in insertion order
  outbox,              \* the POSTs the provider has answered, in order
  now,                 \* the wall clock, in ms
  ticks,               \* how often the clock has advanced
  serial,              \* how many requests have arrived
  handler              \* the handler invocations: per slot, the one in
                       \* progress or the last one that ended there

vars == <<SHOPIFY_SECRET_KEY, whatsappLogs, outbox, now, ticks, serial, handler>>

Slots == 1..MaxDeliveries

\* a handler invocation: its position (pc), its response (res), its locals
\* (checkoutId, sanitizedPhone, doc: the literal handed to add()), and for the
\* properties its serial number n, what it was given (hasHmac, signed,
\* completed), the order of its effects (trace) and how it ended (outcome);
\* req holds the request itself only in ProbeSpec
Idle ==
  [pc |-> "idle", n |-> 0, kind |-> CheckoutsUpdate, res |-> << >>, trace |-> << >>,
   outcome |-> "", hasHmac |-> FALSE, signed |-> FALSE, completed |-> FALSE,
   checkoutId |-> undefined, sanitizedPhone |-> NoPhone, doc |-> << >>,
   req |-> << >>]

(* ------------------------ Event Authenticator -------------------------- *)
\* base64(HMAC-SHA256(key, text)): distinct (key, text) pairs give distinct
\* digests
HmacSha256Base64(secret, rawBody) == <<secret, rawBody>>

\* a body other than rawBody, over which a presented signature may have been
\* computed
Tampered(rawBody) ==
  [rawBody EXCEPT !.id = CHOOSE i \in EventIds : i # rawBody.id]

\* req.get("X-Shopify-Hmac-Sha256"): << >> when the header is absent, else
\* <<value>> with a non-empty value: the digest of the body under the
\* configured secret, of another body under it, or of the body under another
\* secret
Headers(rawBody) ==
  { << >>,
    << HmacSha256Base64(SHOPIFY_SECRET_KEY, rawBody) >>,
    << HmacSha256Base64(SHOPIFY_SECRET_KEY, Tampered(rawBody)) >>,
    << HmacSha256Base64(ForeignSecret, rawBody) >> }

\* !hmac || !SHOPIFY_SECRET_KEY
MissingSecretIgnored(hmac, secret) == hmac = << >>
MissingHmacOrSecret(hmac, secret) == hmac = << >> \/ secret = ""

\* computedHmac !== hmac
MismatchAccepted(hmac, secret, rawBody) == FALSE
HmacMismatch(hmac, secret, rawBody) ==
  HmacSha256Base64(secret, rawBody) # hmac[1]

\* return res.sendStatus(403)
Reject(h) ==
  [h EXCEPT !.res = Append(@, 403), !.trace = Append(@, "res"),
            !.pc = "done", !.outcome = "rejected"]

\* res.sendStatus(200), before any other work
AckForgotten(h) == h
Ack(h) == [h EXCEPT !.res = Append(@, 200), !.trace = Append(@, "res")]

\* a return (or the end of the handler) after the acknowledgment
Return(h, why) == [h EXCEPT !.pc = "done", !.outcome = why]

(* --------------------------- Event Normalizer -------------------------- *)
\* if (checkout.completed_at)
Truthy(s) == s # undefined /\ s # ""

\* customer?.phone ?? shipping_address?.phone ?? billing_address?.phone
ResolveWithDefault(checkout) ==
  IF checkout.customer_phone # NoPhone THEN checkout.customer_phone
  ELSE IF checkout.shipping_phone # NoPhone THEN checkout.shipping_phone
  ELSE IF checkout.billing_phone # NoPhone THEN checkout.billing_phone
  ELSE RawNational1
ResolveRawPhone(checkout) ==
  IF checkout.customer_phone # NoPhone THEN checkout.customer_phone
  ELSE IF checkout.shipping_phone # NoPhone THEN checkout.shipping_phone
  ELSE checkout.billing_phone

\* if (!rawPhone) return
NoRawPhone(rawPhone) == rawPhone = NoPhone \/ rawPhone = << >>

(* --------------------------- Phone Normalizer -------------------------- *)
\* parsePhoneNumberFromString(rawPhone, "IN") on strings of "+", digits and
\* letters: undefined unless the text is an optional "+" and two or more
\* digits; with "+" the first two digits are the calling code, without it
\* the calling code is 91 and one national prefix 0 is dropped
CallingCodeIN == <<"9", "1">>
parsePhoneNumberFromString(rawPhone) ==
  LET plus == Len(rawPhone) > 0 /\ rawPhone[1] = "+"
      digits == IF plus THEN Tail(rawPhone) ELSE rawPhone
      viable == Len(digits) >= 2 /\ \A i \in 1..Len(digits) : digits[i] \in Digits
  IN  IF ~viable
        THEN [defined |-> FALSE, countryCallingCode |-> << >>, nationalNumber |-> << >>]
      ELSE IF plus
        THEN [defined |-> TRUE, countryCallingCode |-> SubSeq(digits, 1, 2),
              nationalNumber |-> SubSeq(digits, 3, Len(digits))]
      ELSE [defined |-> TRUE, countryCallingCode |-> CallingCodeIN,
            nationalNumber |-> IF digits[1] = "0" THEN Tail(digits) ELSE digits]

\* phoneNumber.isValid(): an Indian mobile number, ten digits starting 6-9
isViable(phoneNumber) == Len(phoneNumber.nationalNumber) >= 2
isValid(phoneNumber) ==
  /\ phoneNumber.countryCallingCode = CallingCodeIN
  /\ Len(phoneNumber.nationalNumber) = 10
  /\ phoneNumber.nationalNumber[1] \in {"6", "7", "8", "9"}

\* phoneNumber.number, the E.164 text
number(phoneNumber) ==
  <<"+">> \o phoneNumber.countryCallingCode \o phoneNumber.nationalNumber

(* --------------------------- Notification Log -------------------------- *)
\* a field the object literal handed to add() does not have
absent == "absent"

\* db.collection("whatsappLogs").where("checkoutId", "==", checkoutId).get()
whereCheckoutId(logs, checkoutId) ==
  { i \in DOMAIN logs : logs[i].checkoutId = checkoutId }

\* .where("phone", "==", sanitizedPhone).orderBy("timestamp", "desc").limit(1)
\* .get(): the docs array, empty or holding the document of that phone with
\* the greatest timestamp; a document without the field is not returned
recentSentOnly(logs, sanitizedPhone) ==
  LET hits == { i \in DOMAIN logs :
                  /\ logs[i].phone = sanitizedPhone
                  /\ logs[i].timestamp # << >>
                  /\ logs[i].status # "failed" }
  IN  IF hits = {} THEN << >>
      ELSE << logs[CHOOSE i \in hits :
                     \A j \in hits : logs[j].timestamp[1] <= logs[i].timestamp[1]] >>
recentMessages(logs, sanitizedPhone) ==
  LET hits == { i \in DOMAIN logs :
                  logs[i].phone = sanitizedPhone /\ logs[i].timestamp # << >> }
  IN  IF hits = {} THEN << >>
      ELSE << logs[CHOOSE i \in hits :
                     \A j \in hits : logs[j].timestamp[1] <= logs[i].timestamp[1]] >>

\* add() of the Firestore client: a field holding undefined is refused with a
\* synchronous throw
IsFirestoreData(doc) == doc.messageId # undefined /\ doc.status # undefined

\* the append itself
addDropped(logs, doc) == logs
addUpsert(logs, doc) ==
  IF whereCheckoutId(logs, doc.checkoutId) = {} THEN Append(logs, doc)
  ELSE [j \in DOMAIN logs |-> IF logs[j].checkoutId = doc.checkoutId THEN doc ELSE logs[j]]
add(logs, doc) == Append(logs, doc)

(* ------------------------------ Dispatcher ----------------------------- *)
\* the literal of the try branch: no timestamp, no error
SentDoc(h, response, d) ==
  [phone |-> h.sanitizedPhone,
   messageId |-> IF response.messages = << >> THEN undefined
                 ELSE response.messages[1].id,
   checkoutId |-> h.checkoutId,
   status |-> IF response.messages = << >> THEN undefined
              ELSE response.messages[1].message_status,
   timestamp |-> << >>, error |-> absent, by |-> d]

\* the literal of the catch branch
FailedDoc(h, errorMsg, at, d) ==
  [phone |-> h.sanitizedPhone, messageId |-> absent, checkoutId |-> h.checkoutId,
   status |-> "failed", timestamp |-> <<at>>, error |-> errorMsg, by |-> d]

\* error.response?.data ?? error.message
ErrorMsg(result) ==
  IF result.data # undefined THEN result.data ELSE "Network Error"

\* the document the handler goes on to add once axios.post has settled:
\* the try branch's, or the catch branch's when the post was rejected or when
\* add() refused the try branch's literal
DocAfterPost(h, result, at, d) ==
  IF result.ok
    THEN IF IsFirestoreData(SentDoc(h, result, d))
           THEN SentDoc(h, result, d)
           ELSE FailedDoc(h, "Cannot use undefined as a Firestore value", at, d)
    ELSE FailedDoc(h, ErrorMsg(result), at, d)

(* --------------------- the handlers' synchronous entry ----------------- *)
\* from the parsed phone on: both handlers
Normalized(h, checkout, next) ==
  LET rawPhone == ResolveRawPhone(checkout)
      phoneNumber == parsePhoneNumberFromString(rawPhone)
  IN  IF NoRawPhone(rawPhone) THEN Return(h, "no-phone")
      ELSE IF ~phoneNumber.defined THEN Return(h, "unparsable-phone")
      ELSE IF ~isValid(phoneNumber) THEN Return(h, "invalid-phone")
      ELSE [h EXCEPT !.pc = next, !.checkoutId = checkout.id,
                     !.sanitizedPhone = number(phoneNumber)]

\* POST /webhooks/checkouts/update up to its first await
checkoutsUpdate(h, hmac, secret, checkout) ==
  IF MissingHmacOrSecret(hmac, secret) THEN Reject(h)
  ELSE IF HmacMismatch(hmac, secret, checkout) THEN Reject(h)
  ELSE IF Truthy(checkout.completed_at) THEN Return(Ack(h), "completed")
  ELSE Normalized(Ack(h), checkout, "dedup")

\* POST /webhooks/orders/create up to its first await
ordersCreate(h, hmac, secret, checkout) ==
  IF MissingHmacOrSecret(hmac, secret) THEN Reject(h)
  ELSE IF HmacMismatch(hmac, secret, checkout) THEN Reject(h)
  ELSE Normalized(Ack(h), checkout, "post")

(* ------------------------------ actions -------------------------------- *)
Init ==
  /\ SHOPIFY_SECRET_KEY \in Secrets
  /\ whatsappLogs = << >>
  /\ outbox = << >>
  /\ now = 0
  /\ ticks = 0
  /\ serial = 0
  /\ handler = [d \in Slots |-> Idle]

\* no delivery is between its entry and its end
Quiet == \A d \in Slots : handler[d].pc \in {"idle", "done"}

\* the invocation Express makes for a request, with what it was given
Invocation(n, kind, hmac, checkout) ==
  [Idle EXCEPT
     !.n = n,
     !.kind = kind,
     !.hasHmac = (hmac # << >>),
     !.signed = (hmac = << <<SHOPIFY_SECRET_KEY, checkout>> >>),
     !.completed = (checkout.completed_at \notin {undefined, ""})]

\* the route's handler, run to its first await
Entered(h, kind, hmac, checkout) ==
  IF kind = CheckoutsUpdate
    THEN checkoutsUpdate(h, hmac, SHOPIFY_SECRET_KEY, checkout)
    ELSE ordersCreate(h, hmac, SHOPIFY_SECRET_KEY, checkout)

\* a request arrives and its handler runs to the first await
Receive(d) ==
  /\ serial < MaxDeliveries
  /\ handler[d].pc \in {"idle", "done"}
  /\ \A e \in Slots : e < d => handler[e].pc \notin {"idle", "done"}
  /\ serial' = serial + 1
  /\ \E kind \in Kinds, checkout \in Payloads :
       \E hmac \in Headers(checkout) :
         handler' = [handler EXCEPT ![d] =
                       Entered(Invocation(serial + 1, kind, hmac, checkout),
                               kind, hmac, checkout)]
  /\ UNCHANGED <<SHOPIFY_SECRET_KEY, whatsappLogs, outbox, now, ticks>>

\* an await of invocation d settles: the continuation waits for its own
\* promise only, never for another invocation
ResumesInTurn(d, stage) ==
  /\ handler[d].pc = stage
  /\ \A e \in Slots :
       handler[e].n < handler[d].n => handler[e].pc \in {"idle", "done"}
Resumes(d, stage) == handler[d].pc = stage

\* the dedup query answers: if (!existing.empty) return
Dedup(d) ==
  /\ Resumes(d, "dedup")
  /\ LET h == [handler[d] EXCEPT !.trace = Append(@, "get")]
     IN  handler' = [handler EXCEPT ![d] =
           IF whereCheckoutId(whatsappLogs, h.checkoutId) # {}
             THEN Return(h, "already-processed")
             ELSE [h EXCEPT !.pc = "cooldown"]]
  /\ UNCHANGED <<SHOPIFY_SECRET_KEY, whatsappLogs, outbox, now, ticks, serial>>

\* the cooldown query answers: docs[0].data() throws a TypeError on an empty
\* result; otherwise the 24 h test decides
CooldownCheck(d) ==
  /\ Resumes(d, "cooldown")
  /\ LET h == [handler[d] EXCEPT !.trace = Append(@, "get")]
         docs == recentMessages(whatsappLogs, h.sanitizedPhone)
     IN  handler' = [handler EXCEPT ![d] =
           IF docs = << >> THEN Return(h, "fault")
           ELSE IF now - docs[1].timestamp[1] < Cooldown
             THEN Return(h, "rate-limited")
           ELSE [h EXCEPT !.pc = "post"]]
  /\ UNCHANGED <<SHOPIFY_SECRET_KEY, whatsappLogs, outbox, now, ticks, serial>>

\* axios.post settles; the handler builds the document and calls add()
Post(d) ==
  /\ Resumes(d, "post")
  /\ \E result \in ProviderResults :
       /\ outbox' = Append(outbox,
            [to |-> handler[d].sanitizedPhone, checkoutId |-> handler[d].checkoutId,
             at |-> now, ok |-> result.ok,
             messageId |-> IF result.ok /\ result.messages # << >>
                             THEN result.messages[1].id ELSE undefined,
             by |-> handler[d].n])
       /\ handler' = [handler EXCEPT ![d] =
            [@ EXCEPT !.pc = "add", !.trace = Append(@, "post"),
                      !.doc = << DocAfterPost(handler[d], result, now, handler[d].n) >>]]
  /\ UNCHANGED <<SHOPIFY_SECRET_KEY, whatsappLogs, now, ticks, serial>>

\* the add() is stored; the handler ends
Add(d) ==
  /\ Resumes(d, "add")
  /\ whatsappLogs' = add(whatsappLogs, handler[d].doc[1])
  /\ handler' = [handler EXCEPT ![d] =
       Return([@ EXCEPT !.trace = Append(@, "add")], "logged")]
  /\ UNCHANGED <<SHOPIFY_SECRET_KEY, outbox, now, ticks, serial>>

\* time passes
TickSteps == {Cooldown - 1, Cooldown}
Tick ==
  /\ ticks < MaxTicks
  /\ \E step \in TickSteps : now' = now + step
  /\ ticks' = ticks + 1
  /\ UNCHANGED <<SHOPIFY_SECRET_KEY, whatsappLogs, outbox, serial, handler>>

Next ==
  \/ \E d \in Slots : Receive(d)
  \/ \E d \in Slots : Dedup(d)
  \/ \E d \in Slots : CooldownCheck(d)
  \/ \E d \in Slots : Post(d)
  \/ \E d \in Slots : Add(d)
  \/ Tick

Spec == Init /\ [][Next]_vars

\* deliveries processed one after another: a request is taken up only when
\* no other delivery is in progress
SeqReceive(d) == Quiet /\ Receive(d)

SeqNext ==
  \/ \E d \in Slots : SeqReceive(d)
  \/ \E d \in Slots : Dedup(d)
  \/ \E d \in Slots : CooldownCheck(d)
  \/ \E d \in Slots : Post(d)
  \/ \E d \in Slots : Add(d)
  \/ Tick

SeqSpec == Init /\ [][SeqNext]_vars

\* The collection outlives the process: a run may start with the entry an
\* earlier run (delivery number 0) wrote at time 0 after a failed send of
\* chk_1 to +919876543210; the process starts right after it or 24 h later.
SeedPhone == number(parsePhoneNumberFromString(RawE164_1))
SeedDoc ==
  FailedDoc([sanitizedPhone |-> SeedPhone, checkoutId |-> "chk_1"],
            "Network Error", 0, 0)
SeedSend ==
  [to |-> SeedPhone, checkoutId |-> "chk_1", at |-> 0, ok |-> FALSE,
   messageId |-> undefined, by |-> 0]

SeededInit ==
  /\ SHOPIFY_SECRET_KEY \in Secrets
  /\ whatsappLogs = << SeedDoc >>
  /\ outbox = << SeedSend >>
  /\ now \in {0, Cooldown}
  /\ ticks = 0
  /\ serial = 0
  /\ handler = [d \in Slots |-> Idle]

\* invocations interleaved at their awaits, over a collection that already
\* holds an entry
\* the requests of the interleaved runs, which take place within one instant: signed or wrongly signed events of
\* either kind for the phone of the earlier entry, not completed
RacePayloads ==
  { checkout \in Payloads :
      /\ checkout.customer_phone = RawE164_1
      /\ checkout.shipping_phone = NoPhone
      /\ checkout.billing_phone = NoPhone
      /\ checkout.completed_at = undefined }
RaceHeaders(rawBody) ==
  { << HmacSha256Base64(SHOPIFY_SECRET_KEY, rawBody) >>,
    << HmacSha256Base64(ForeignSecret, rawBody) >> }

RaceReceive(d) ==
  /\ serial < MaxDeliveries
  /\ handler[d].pc \in {"idle", "done"}
  /\ \A e \in Slots : e < d => handler[e].pc \notin {"idle", "done"}
  /\ serial' = serial + 1
  /\ \E kind \in Kinds, checkout \in RacePayloads :
       \E hmac \in RaceHeaders(checkout) :
         handler' = [handler EXCEPT ![d] =
                       Entered(Invocation(serial + 1, kind, hmac, checkout),
                               kind, hmac, checkout)]
  /\ UNCHANGED <<SHOPIFY_SECRET_KEY, whatsappLogs, outbox, now, ticks>>

RaceNext ==
  \/ \E d \in Slots : RaceReceive(d)
  \/ \E d \in Slots : Dedup(d)
  \/ \E d \in Slots : CooldownCheck(d)
  \/ \E d \in Slots : Post(d)
  \/ \E d \in Slots : Add(d)

RaceSpec == SeededInit /\ [][RaceNext]_vars

\* One delivery with the request kept beside the invocation (req), over the
\* full range of phone fields: what the handler does before its first await
\* depends on the request and the secret only.
ProbeCustomerPhones == CustomerPhones \cup {RawNational1}
ProbeShippingPhones == ShippingPhones \cup {RawEmpty}
ProbeBillingPhones == BillingPhones \cup {RawEmpty}
ProbePayloads ==
  [id : EventIds, completed_at : CompletedAts,
   customer_phone : ProbeCustomerPhones, shipping_phone : ProbeShippingPhones,
   billing_phone : ProbeBillingPhones]

ProbeInit == Init \/ SeededInit

ProbeReceive(d) ==
  /\ serial = 0
  /\ handler[d].pc = "idle"
  /\ \A e \in Slots : e < d => handler[e].pc # "idle"
  /\ serial' = serial + 1
  /\ \E kind \in Kinds, checkout \in ProbePayloads :
       \E hmac \in Headers(checkout) :
         handler' = [handler EXCEPT ![d] =
                       Entered([Invocation(serial + 1, kind, hmac, checkout)
                                  EXCEPT !.req = << checkout >>],
                               kind, hmac, checkout)]
  /\ UNCHANGED <<SHOPIFY_SECRET_KEY, whatsappLogs, outbox, now, ticks>>

ProbeNext ==
  \/ \E d \in Slots : ProbeReceive(d)
  \/ \E d \in Slots : Dedup(d)
  \/ \E d \in Slots : CooldownCheck(d)
  \/ \E d \in Slots : Post(d)
  \/ \E d \in Slots : Add(d)
  \/ Tick

ProbeSpec == ProbeInit /\ [][ProbeNext]_vars

(* ------------------------ vocabulary of the claims --------------------- *)
Started == { d \in Slots : handler[d].pc # "idle" }

\* the delivery presented a signature header, the secret is configured and
\* the header equals the digest of the raw body under the secret
Authentic(h) == h.hasHmac /\ SHOPIFY_SECRET_KEY # "" /\ h.signed

\* the log entries / outbound sends of delivery number n
EntriesBy(n) == { i \in DOMAIN whatsappLogs : whatsappLogs[i].by = n }
SendsBy(n) == { i \in DOMAIN outbox : outbox[i].by = n }
SendsFor(checkoutId) == { i \in DOMAIN outbox : outbox[i].checkoutId = checkoutId }

\* the delivery has issued a log query, an outbound send or a log write
Worked(h) == \E k \in DOMAIN h.trace : h.trace[k] \in {"get", "post", "add"}

(* ------------------------------- C1 ------------------------------------ *)
\* C1: with deliveries processed one after another (SeqSpec), every event id
\* has at most one log entry and at most one outbound send.
C1_AtMostOncePerEventId ==
  \A id \in EventIds :
    /\ Cardinality(whereCheckoutId(whatsappLogs, id)) <= 1
    /\ Cardinality(SendsFor(id)) <= 1

(* ------------------------------- C2 ------------------------------------ *)
\* C2: a signed, not completed checkout event with a valid phone, processed
\* while the log holds no entry of another delivery for its event id or its
\* phone, ends with exactly one outbound send and, when that send succeeds,
\* exactly one log entry, not failed, with its event id and canonical phone.
C2_FirstDeliveryServed ==
  \A d \in Started :
    LET h == handler[d] IN
      ( /\ h.pc = "done"
        /\ h.kind = CheckoutsUpdate
        /\ Authentic(h) /\ ~h.completed
        /\ h.sanitizedPhone # NoPhone
        /\ \A i \in DOMAIN whatsappLogs :
             whatsappLogs[i].by # h.n =>
               /\ whatsappLogs[i].checkoutId # h.checkoutId
               /\ whatsappLogs[i].phone # h.sanitizedPhone )
      => /\ Cardinality(SendsBy(h.n)) = 1
         /\ \A i \in SendsBy(h.n) : outbox[i].ok =>
              /\ Cardinality(EntriesBy(h.n)) = 1
              /\ \A j \in EntriesBy(h.n) :
                   /\ whatsappLogs[j].status # "failed"
                   /\ whatsappLogs[j].checkoutId = h.checkoutId
                   /\ whatsappLogs[j].phone = h.sanitizedPhone

(* ------------------------------- C3 ------------------------------------ *)
\* C3: with deliveries processed one after another, after a successful send
\* to a phone no outbound call for another event id goes to that phone less
\* than 24 h later.
C3_CooldownSuppresses ==
  \A i, j \in DOMAIN outbox :
    ( /\ i < j
      /\ outbox[i].ok
      /\ outbox[i].to = outbox[j].to
      /\ outbox[i].checkoutId # outbox[j].checkoutId )
    => outbox[j].at - outbox[i].at >= Cooldown

(* ------------------------------- C4 ------------------------------------ *)
\* a successful send to the phone of h for another event id exists, and
\* every send to that phone lies 24 h or more before the present time
PriorSendsExpired(h) ==
  /\ \E i \in DOMAIN outbox :
       /\ outbox[i].to = h.sanitizedPhone
       /\ outbox[i].ok
       /\ outbox[i].checkoutId # h.checkoutId
  /\ \A i \in DOMAIN outbox :
       outbox[i].to = h.sanitizedPhone => now - outbox[i].at >= Cooldown

\* C4: a checkout delivery that passed the dedup check and runs its cooldown
\* check 24 h or more after the successful dispatch to its phone goes on to
\* the outbound send.
C4_CooldownExpiryDispatches ==
  [][ \A d \in Slots :
        ( /\ handler[d].pc = "cooldown"
          /\ handler'[d].pc # "cooldown"
          /\ PriorSendsExpired(handler[d]) )
        => handler'[d].pc = "post" ]_vars

C6_AckBeforeWork ==
  \A d \in Started :
    LET h == handler[d] IN
      (Worked(h) \/ h.pc # "done" \/ EntriesBy(h.n) # {} \/ SendsBy(h.n) # {}) =>
        /\ Authentic(h)
        /\ h.res = <<200>>
        /\ h.trace[1] = "res"
        /\ \A k \in 2..Len(h.trace) : h.trace[k] # "res"

\* a checkout delivery ran both queries, the send and the write
C6_Witness ==
  \E d \in Started : handler[d].trace = <<"res", "get", "get", "post", "add">>

C8_CompletedIgnored ==
  \A d \in Started :
    LET h == handler[d] IN
      (Authentic(h) /\ h.completed) =>
        /\ h.pc = "done"
        /\ ~Worked(h)
        /\ EntriesBy(h.n) = {}
        /\ SendsBy(h.n) = {}

(* ------------------------------- C9 ------------------------------------ *)
\* C9: every log entry follows an outbound send of the same delivery with the
\* same event id and phone; and when no delivery is in progress, the log
\* holds exactly one entry per outbound send.
C9_OneEntryPerAttempt ==
  /\ \A j \in DOMAIN whatsappLogs :
       \E i \in DOMAIN outbox :
         /\ outbox[i].by = whatsappLogs[j].by
         /\ outbox[i].checkoutId = whatsappLogs[j].checkoutId
         /\ outbox[i].to = whatsappLogs[j].phone
  /\ Quiet =>
       /\ Len(whatsappLogs) = Len(outbox)
       /\ \A i \in DOMAIN outbox : Cardinality(EntriesBy(outbox[i].by)) = 1
       /\ \A j \in DOMAIN whatsappLogs : Cardinality(SendsBy(whatsappLogs[j].by)) = 1

\* two deliveries have ended, one after a successful and one after a failed
\* send, and both are logged
C9_Witness ==
  /\ Quiet
  /\ Len(outbox) = 2
  /\ \E i, j \in DOMAIN outbox : outbox[i].ok /\ ~outbox[j].ok
  /\ Len(whatsappLogs) = 2

(* ------------------------------- C10 ----------------------------------- *)
\* C10: the entry written after a successful send is not failed and carries
\* the provider's message identifier; the entry written after a failed send
\* is failed and carries an error description.
C10_OutcomeRecordedFaithfully ==
  \A j \in DOMAIN whatsappLogs :
    \A i \in SendsBy(whatsappLogs[j].by) :
      IF outbox[i].ok
        THEN /\ whatsappLogs[j].status # "failed"
             /\ whatsappLogs[j].messageId = outbox[i].messageId
        ELSE /\ whatsappLogs[j].status = "failed"
             /\ whatsappLogs[j].error \notin {absent, undefined}

(* ------------------------------- C11 ----------------------------------- *)
\* C11: no delivery makes more than one outbound send, and with deliveries
\* processed one after another, a delivery of an event id for which an
\* earlier delivery has written a failed entry makes no outbound send and
\* adds no log entry.
C11_FailedIsTerminal ==
  /\ \A i, j \in DOMAIN outbox : outbox[i].by = outbox[j].by => i = j
  /\ \A d \in Started :
       LET h == handler[d] IN
         (\E j \in DOMAIN whatsappLogs :
            /\ whatsappLogs[j].by < h.n
            /\ whatsappLogs[j].status = "failed"
            /\ whatsappLogs[j].checkoutId = h.checkoutId)
         => /\ h.pc \notin {"post", "add"}
            /\ SendsBy(h.n) = {}
            /\ EntriesBy(h.n) = {}

(* ------------------------------- C12 ----------------------------------- *)
\* C12: no delivery ever waits on another: a delivery that is in progress
\* can always take its next step, whatever the other deliveries are doing.
\* (The race itself is the witness.)
C12_NoDeliveryWaits ==
  \A d \in Slots :
    handler[d].pc \in {"dedup", "cooldown", "post", "add"} =>
      ENABLED (Dedup(d) \/ CooldownCheck(d) \/ Post(d) \/ Add(d))

\* two checkout deliveries of one event id have both sent and both logged:
\* the second ran its dedup query before the first wrote its entry
C12_Witness ==
  \E d, e \in Started :
    /\ d # e
    /\ handler[d].kind = CheckoutsUpdate /\ handler[e].kind = CheckoutsUpdate
    /\ handler[d].checkoutId = handler[e].checkoutId
    /\ handler[d].outcome = "logged" /\ handler[e].outcome = "logged"
    /\ SendsBy(handler[d].n) # {} /\ SendsBy(handler[e].n) # {}
    /\ EntriesBy(handler[d].n) # {} /\ EntriesBy(handler[e].n) # {}
    /\ Cardinality(whereCheckoutId(whatsappLogs, handler[d].checkoutId)) = 2

(* ------------------------------- C13 ----------------------------------- *)
\* the request of a probed delivery, and the deliveries that have one
Probed == { d \in Started : handler[d].req # << >> }
Request(d) == handler[d].req[1]

\* C13: an authentic delivery of either kind whose event has no customer
\* phone, no shipping phone and no billing phone makes no log query, no
\* outbound send and no log write.
C13_MissingRecipientShortCircuits ==
  \A d \in Probed :
    LET h == handler[d] IN
      ( /\ Authentic(h)
        /\ Request(d).customer_phone = NoPhone
        /\ Request(d).shipping_phone = NoPhone
        /\ Request(d).billing_phone = NoPhone )
      => /\ h.pc = "done"
         /\ ~Worked(h)
         /\ SendsBy(h.n) = {}
         /\ EntriesBy(h.n) = {}

\* an authentic order without any phone ended at once, over a log with an
\* entry
C13_Witness ==
  \E d \in Probed :
    /\ Authentic(handler[d])
    /\ handler[d].kind = OrdersCreate
    /\ Request(d).customer_phone = NoPhone
    /\ Request(d).shipping_phone = NoPhone
    /\ Request(d).billing_phone = NoPhone
    /\ handler[d].outcome = "no-phone"
    /\ whatsappLogs # << >>

(* ------------------------------- C14 ----------------------------------- *)
\* the claim's own reading of "structurally valid under the default region"
\* and of "canonical E.164", written on the text and not through the parser
AllDigits(s) == \A i \in 1..Len(s) : s[i] \in Digits
MobileIN(s) == Len(s) = 10 /\ AllDigits(s) /\ s[1] \in {"6", "7", "8", "9"}
StructurallyValidIN(raw) ==
  IF raw = NoPhone \/ raw = << >> THEN FALSE
  ELSE IF raw[1] = "+"
    THEN Len(raw) = 13 /\ SubSeq(raw, 2, 3) = <<"9", "1">> /\ MobileIN(SubSeq(raw, 4, 13))
  ELSE IF raw[1] = "0" THEN MobileIN(Tail(raw))
  ELSE MobileIN(raw)
CanonicalE164IN(raw) ==
  IF raw[1] = "+" THEN raw
  ELSE IF raw[1] = "0" THEN <<"+", "9", "1">> \o Tail(raw)
  ELSE <<"+", "9", "1">> \o raw
WellFormedE164IN(p) ==
  /\ Len(p) = 13
  /\ p[1] = "+"
  /\ SubSeq(p, 2, 3) = <<"9", "1">>
  /\ MobileIN(SubSeq(p, 4, 13))

\* C14: an authentic delivery of either kind whose resolved raw phone does not
\* parse or is not a valid number of region IN makes no outbound send and
\* writes no entry; every entry in the log carries a valid number in E.164
\* form, the recipient of the send of the same delivery, and the canonical
\* form of the raw phone the delivery resolved.
C14_InvalidPhoneAbortsSilently ==
  /\ \A d \in Probed :
       LET h == handler[d]
           raw == ResolveRawPhone(Request(d))
       IN  /\ (Authentic(h) /\ ~StructurallyValidIN(raw))
                => SendsBy(h.n) = {} /\ EntriesBy(h.n) = {} /\ h.pc = "done"
           /\ \A i \in EntriesBy(h.n) :
                /\ StructurallyValidIN(raw)
                /\ whatsappLogs[i].phone = CanonicalE164IN(raw)
  /\ \A i \in DOMAIN whatsappLogs :
       /\ WellFormedE164IN(whatsappLogs[i].phone)
       /\ \E j \in DOMAIN outbox :
            /\ outbox[j].by = whatsappLogs[i].by
            /\ outbox[j].to = whatsappLogs[i].phone

\* an authentic order with a five-digit phone ended at the validity test,
\* beside the entry and the send of an earlier delivery
C14_Witness ==
  \E d \in Probed :
    /\ Authentic(handler[d])
    /\ handler[d].kind = OrdersCreate
    /\ ResolveRawPhone(Request(d)) = RawShort
    /\ handler[d].outcome = "invalid-phone"
    /\ whatsappLogs # << >>
    /\ outbox # << >>

\* an entry whose phone is not the text the event carried: national form
\* in, E.164 out
C14_Canonicalized ==
  \E d \in Probed :
    \E i \in EntriesBy(handler[d].n) :
      whatsappLogs[i].phone # ResolveRawPhone(Request(d))

(* ------------------------------- C15 ----------------------------------- *)
\* C15: every log entry, of the success branch as of the failure branch,
\* carries a timestamp, the time of the attempt it records.
C15_EveryEntryTimestamped ==
  \A j \in DOMAIN whatsappLogs :
    /\ whatsappLogs[j].timestamp # << >>
    /\ \A i \in SendsBy(whatsappLogs[j].by) :
         whatsappLogs[j].timestamp = << outbox[i].at >>

(* ------------------------------- C16 ----------------------------------- *)
\* the entries for the phone of h written before h began, and the last of them
PriorEntriesFor(h) ==
  { j \in DOMAIN whatsappLogs :
      whatsappLogs[j].phone = h.sanitizedPhone /\ whatsappLogs[j].by < h.n }
MostRecentPrior(h) ==
  CHOOSE j \in PriorEntriesFor(h) : \A k \in PriorEntriesFor(h) : k <= j

\* the checkout delivery has had the answer of its cooldown query
RanCooldownCheck(h) ==
  /\ h.kind = CheckoutsUpdate
  /\ Len(h.trace) >= 3
  /\ SubSeq(h.trace, 1, 3) = <<"res", "get", "get">>

\* C16: a checkout delivery that passed the dedup check and whose cooldown
\* query meets a most recent entry for the phone without a timestamp is
\* neither blocked nor faulted: it goes on to the send and the log write.
C16_MissingTimestampFallback ==
  \A d \in Started :
    LET h == handler[d] IN
      ( /\ RanCooldownCheck(h)
        /\ PriorEntriesFor(h) # {}
        /\ whatsappLogs[MostRecentPrior(h)].timestamp = << >> )
      => /\ h.outcome \notin {"fault", "rate-limited"}
         /\ h.pc = "done" => h.outcome = "logged" /\ SendsBy(h.n) # {}

(* ------------------------------- C17 ----------------------------------- *)
\* the claim's resolution: the first of customer, shipping, billing phone
\* that is present and not the empty string, null when there is none
NonEmptyPhone(p) == p # NoPhone /\ p # << >>
FirstNonEmpty(checkout) ==
  IF NonEmptyPhone(checkout.customer_phone) THEN checkout.customer_phone
  ELSE IF NonEmptyPhone(checkout.shipping_phone) THEN checkout.shipping_phone
  ELSE IF NonEmptyPhone(checkout.billing_phone) THEN checkout.billing_phone
  ELSE NoPhone

\* C17: for every combination of present, empty and absent phones the raw
\* phone the handler resolves is the first non-empty one in the order
\* customer, shipping, billing, and the delivery ends for want of a phone
\* only when all three are empty or absent.
C17_FirstNonEmptyWins ==
  \A d \in Probed :
    LET h == handler[d]
        rawPhone == ResolveRawPhone(Request(d))
    IN  ( /\ Authentic(h)
          /\ ~(h.kind = CheckoutsUpdate /\ Truthy(Request(d).completed_at)) )
        => /\ (IF NoRawPhone(rawPhone) THEN NoPhone ELSE rawPhone)
                = FirstNonEmpty(Request(d))
           /\ h.outcome = "no-phone" <=> FirstNonEmpty(Request(d)) = NoPhone

(* ------------------------------- C18 ----------------------------------- *)
\* C18: every step leaves each entry that existed before it in place and
\* unchanged and adds at most one entry, and no delivery has more than one
\* entry in the log.
C18_AppendOnly ==
  [][ /\ Len(whatsappLogs') \in {Len(whatsappLogs), Len(whatsappLogs) + 1}
      /\ \A j \in DOMAIN whatsappLogs : whatsappLogs'[j] = whatsappLogs[j]
      /\ \A n \in 1..serial : Cardinality(EntriesBy(n)) <= 1 ]_vars

\* a second delivery has logged beside the entry of the first, for the same
\* event id
C18_Witness ==
  /\ Len(whatsappLogs) = 2
  /\ whatsappLogs[1].checkoutId = whatsappLogs[2].checkoutId
  /\ whatsappLogs[1].by # whatsappLogs[2].by

(* ------------------------------- C19 ----------------------------------- *)
\* C19: a delivery of either kind sends only after it has itself had the
\* answers of the dedup query and of the cooldown query, in this order.
C19_GateBeforeSend ==
  \A d \in Started :
    LET h == handler[d] IN
      (SendsBy(h.n) # {} \/ h.pc = "add" \/ "post" \in { h.trace[k] : k \in DOMAIN h.trace })
      => /\ Len(h.trace) >= 4
         /\ SubSeq(h.trace, 1, 4) = <<"res", "get", "get", "post">>

(* ------------------------------- C20 ----------------------------------- *)
\* the most recent timestamped entry for the phone of h, if there is one
TimestampedFor(h) ==
  { j \in DOMAIN whatsappLogs :
      whatsappLogs[j].phone = h.sanitizedPhone /\ whatsappLogs[j].timestamp # << >> }
LatestTimestampedFor(h) ==
  { j \in TimestampedFor(h) :
      \A k \in TimestampedFor(h) :
        whatsappLogs[k].timestamp[1] <= whatsappLogs[j].timestamp[1] }

\* C20: when the cooldown query of a checkout delivery is answered while the
\* most recent timestamped entry for its phone is a failed entry of another
\* event id less than 24 h old, the delivery ends there, suppressed: no
\* outbound send, no log entry.
C20_FailedEntrySuppresses ==
  [][ \A d \in Slots :
        LET h == handler[d] IN
          ( /\ h.pc = "cooldown"
            /\ handler'[d].pc # "cooldown"
            /\ \E j \in LatestTimestampedFor(h) :
                 /\ whatsappLogs[j].status = "failed"
                 /\ whatsappLogs[j].checkoutId # h.checkoutId
                 /\ now - whatsappLogs[j].timestamp[1] < Cooldown )
          => /\ handler'[d].pc = "done"
             /\ handler'[d].outcome = "rate-limited"
             /\ outbox' = outbox
             /\ whatsappLogs' = whatsappLogs
             /\ SendsBy(h.n) = {}
             /\ EntriesBy(h.n) = {} ]_vars

\* a checkout was suppressed although no send to its phone ever succeeded
C20_Witness ==
  \E d \in Started :
    /\ handler[d].kind = CheckoutsUpdate
    /\ handler[d].outcome = "rate-limited"
    /\ \E j \in DOMAIN whatsappLogs :
         /\ whatsappLogs[j].phone = handler[d].sanitizedPhone
         /\ whatsappLogs[j].status = "failed"
    /\ \A i \in DOMAIN outbox :
         outbox[i].to = handler[d].sanitizedPhone => ~outbox[i].ok

(* ------------------------------- C21 ----------------------------------- *)
\* the outcomes the processing after the 200 is meant to end in: skipped as
\* completed, missing recipient, invalid phone, suppressed by dedup,
\* suppressed by cooldown, sent or failed and logged
DefinedOutcomes ==
  {"completed", "no-phone", "unparsable-phone", "invalid-phone",
   "already-processed", "rate-limited", "logged"}

\* C21: whatever the log holds, the processing of an authentic delivery that
\* has ended has ended in one of the defined outcomes, never in an unhandled
\* error, and one that ended logged has its one send and its one entry.
C21_NoDeliveryFaults ==
  \A d \in Started :
    LET h == handler[d] IN
      (Authentic(h) /\ h.pc = "done")
      => /\ h.outcome \in DefinedOutcomes
         /\ h.outcome = "logged"
              => Cardinality(SendsBy(h.n)) = 1 /\ Cardinality(EntriesBy(h.n)) = 1

====
